---------------------------- MODULE Spec2Model ----------------------------
(***************************************************************************)
(* Model of src/server.py: the DQClient (lazy, cached sign-in with one      *)
(* retry on 401), the get_client singleton accessor, the call_api wrapper   *)
(* and the tool functions built on it.                                      *)
(*                                                                          *)
(* Optional values (Python None or a value) are sets: {} is None and {v}    *)
(* is the value v.                                                          *)
(***************************************************************************)
EXTENDS Integers, Sequences, FiniteSets

\* ------------------------------------------------------------------ bounds
MaxTokens == 2      \* distinct token strings the sign-in endpoint can issue
MaxExtra == 1       \* how far a response body can exceed the excerpt limit
NThreads == 3       \* threads that may invoke get_client concurrently

\* ------------------------------------------------------- program constants
ExcerptLen == 500   \* response.text[:500]
MaxRows == 10       \* df.head(10)

None == {}
Some(v) == {v}
Get(o) == CHOOSE v \in o : TRUE
Min(a, b) == IF a <= b THEN a ELSE b

Tokens == 1..MaxTokens
Threads == 1..NThreads
\* The thread that runs the tool invocations followed in full.
Main == CHOOSE t \in Threads : \A u \in Threads : t <= u

\* --------------------------------------------------------- HTTP responses
Statuses == {200, 302, 401, 500}

\* requests.Response.ok: raise_for_status() raises only for 400 <= status < 600
Ok(status) == ~(400 <= status /\ status < 600)

\* Shapes of response bodies: not JSON at all, or one of the JSON values the
\* tools distinguish.
BodyKinds ==
    {"notjson", "empty_list", "rules", "sqlresult", "queue", "assets", "object"}
BodyLens == {2, ExcerptLen, ExcerptLen + MaxExtra}
RowCounts == {0, MaxRows, MaxRows + MaxExtra + 1}

\* A body: its kind, the length of its text, and the number of rows it lists.
\* The length is varied for plain-text and JSON-object bodies (what an error
\* answer carries), the row count for tabular results.
Bodies ==
    { [kind |-> k, len |-> n, rows |-> 0] : k \in {"notjson", "object"}, n \in BodyLens }
    \cup { [kind |-> k, len |-> 2, rows |-> 0] : k \in {"empty_list"} }
    \cup { [kind |-> k, len |-> ExcerptLen, rows |-> 1] : k \in {"rules", "queue", "assets"} }
    \cup { [kind |-> "sqlresult", len |-> ExcerptLen, rows |-> r] : r \in RowCounts }

\* response.text, and a slice text[:n] of it: a text is identified by the
\* body it comes from and how many of its leading characters are kept.
Text(body) == [src |-> body.kind, len |-> body.len]
Slice(text, n) == [text EXCEPT !.len = Min(text.len, n)]

\* ------------------------------------------------------------- exceptions
\* Exception classes raised by the requests library and the interpreter,
\* with the classes each is an instance of.
Bases(cls) ==
    CASE cls = "ConnectionError"         -> {"ConnectionError", "RequestException", "Exception"}
      [] cls = "ConnectTimeout"          -> {"ConnectTimeout", "ConnectionError", "Timeout", "RequestException", "Exception"}
      [] cls = "ReadTimeout"             -> {"ReadTimeout", "Timeout", "RequestException", "Exception"}
      [] cls = "HTTPError"               -> {"HTTPError", "RequestException", "Exception"}
      [] cls = "MissingSchema"           -> {"MissingSchema", "RequestException", "Exception"}
      [] cls = "requests.JSONDecodeError" -> {"requests.JSONDecodeError", "RequestException", "json.JSONDecodeError", "Exception"}
      [] cls = "json.JSONDecodeError"    -> {"json.JSONDecodeError", "Exception"}
      [] cls = "KeyError"                -> {"KeyError", "Exception"}
      [] OTHER                           -> {cls, "Exception"}

IsInstance(cls, base) == base \in Bases(cls)

\* Exceptions requests.post / requests.request raise instead of responding.
TransportErrors == {"ConnectionError", "ConnectTimeout", "ReadTimeout"}

\* response.json() on a body that is not JSON: requests >= 2.27 raises its own
\* JSONDecodeError (a RequestException and a json.JSONDecodeError), older
\* releases raise json.JSONDecodeError; the repository pins no version.
JsonErrors == {"requests.JSONDecodeError", "json.JSONDecodeError"}

\* ---------------------------------------------------------------- state
VARIABLES
    env,          \* the process: DQ_URL as os.getenv returns it, and the
                  \* class response.json() raises in the installed requests
    heap,         \* the DQClient objects constructed so far, by identity 1..Len
    g_client,     \* module global _client: 0 is None, else an object identity
    gcpc,         \* per thread: position inside get_client
    got,          \* per thread: the object its last get_client returned (0: none)
    pc,           \* position of the tool invocation in progress
    tool,         \* the tool being run
    step,         \* which call_api of the tool is in progress (run_dq_job has 2)
    kwHeaders,    \* kwargs['headers'] inside request()
    response,     \* the response request() holds: status, and body once read
    exc,          \* the exception raised inside call_api's try block
    callResult,   \* what call_api returned
    toolResult,   \* what the tool returned
    trace,        \* backend interactions of the request() in progress, in order
    lastEv,       \* the kind of the most recent backend interaction
    hist          \* observers over the whole run (not program state)

gcVars == <<heap, g_client, gcpc, got>>
callVars == <<pc, tool, step, kwHeaders, response, exc, callResult, toolResult>>
histVars == <<trace, lastEv, hist>>
vars == <<env, heap, g_client, gcpc, got, pc, tool, step, kwHeaders, response,
          exc, callResult, toolResult, trace, lastEv, hist>>

\* ------------------------------------------------------------ DQClient
\* DQClient.__init__
NewClient(base_url) == [base_url |-> base_url, token |-> None, headers |-> None]

\* The header set _authenticate builds from a token.
AuthHeaders(t) ==
    [ContentType |-> "application/json", accept |-> "application/json",
     Authorization |-> <<"Bearer", t>>]

\* The token an Authorization header value carries.
BearerToken(headers) == headers.Authorization[2]

\* What the sign-in endpoint can do: fail at transport level, or answer with a
\* status and a body that is not JSON, JSON without a token, or JSON with one.
SigninOutcomes ==
    { [t |-> "exc", cls |-> c, status |-> 0, body |-> "none", token |-> 0] :
        c \in TransportErrors }
    \cup { [t |-> "resp", cls |-> "none", status |-> s, body |-> b, token |-> 0] :
        s \in Statuses, b \in {"notjson", "no_token"} }
    \cup { [t |-> "resp", cls |-> "none", status |-> s, body |-> "token", token |-> k] :
        s \in Statuses, k \in Tokens }

\* The exception _authenticate raises on outcome o, None when it raises none.
\* je is the class response.json() raises in the installed requests release.
AuthError(c, o, je) ==
    IF c.base_url = None THEN Some("MissingSchema")
    ELSE IF o.t = "exc" THEN Some(o.cls)
    ELSE IF ~Ok(o.status) THEN Some("HTTPError")
    ELSE IF o.body = "notjson" THEN Some(je)
    ELSE IF o.body = "no_token" THEN Some("KeyError")
    ELSE None

\* A sign-in that stores the token before it checks the response.
AuthenticateEarlyStore(c, o, je) ==
    IF o.body = "token" /\ c.base_url # None
    THEN [c EXCEPT !.token = Some(o.token),
                   !.headers = IF AuthError(c, o, je) = None
                               THEN Some(AuthHeaders(o.token)) ELSE @]
    ELSE c

\* A sign-in that builds the header set once and keeps it afterwards.
AuthenticateKeepHeaders(c, o, je) ==
    IF AuthError(c, o, je) # None THEN c
    ELSE [c EXCEPT !.token = Some(o.token),
                   !.headers = IF @ = None THEN Some(AuthHeaders(o.token)) ELSE @]

\* DQClient._authenticate: the client after the sign-in attempt.
Authenticate(c, o, je) ==
    IF AuthError(c, o, je) # None THEN c
    ELSE [c EXCEPT !.token = Some(o.token), !.headers = Some(AuthHeaders(o.token))]

\* ------------------------------------------------------------- history
\* The record of a sign-in attempt.
SigninEvent(c, o, je) ==
    [ev |-> IF AuthError(c, o, je) = None THEN "signin_ok" ELSE "signin_fail",
     token |-> IF AuthError(c, o, je) = None THEN o.token ELSE 0,
     status |-> 0, method |-> "POST", endpoint |-> "/auth/signin"]

\* The record of a backend request: answered, or failed in transport.
SendEvent(headers, req, status) ==
    [ev |-> "send", token |-> BearerToken(headers), status |-> status,
     method |-> req.method, endpoint |-> req.endpoint]
SendFailEvent(headers, req) ==
    [ev |-> "send_exc", token |-> BearerToken(headers), status |-> 0,
     method |-> req.method, endpoint |-> req.endpoint]

IsSignin(e) == e.ev \in {"signin_ok", "signin_fail"}

EvLabel(e) ==
    IF e.ev = "send" THEN (IF e.status = 401 THEN "send_401" ELSE "send_other")
    ELSE e.ev

\* signins: sign-in calls made before the first request answered with a
\* success status (counted up to 2); okReq: such a request has happened;
\* lastTok: the token of the most recent successful sign-in (0: none).
HistAfter(e) ==
    [signins  |-> IF IsSignin(e) /\ ~hist.okReq THEN Min(hist.signins + 1, 2)
                  ELSE hist.signins,
     okReq    |-> hist.okReq \/ (e.ev = "send" /\ Ok(e.status)),
     lastTok  |-> IF e.ev = "signin_ok" THEN e.token ELSE hist.lastTok]

Log(e) ==
    /\ trace' = Append(trace, e)
    /\ lastEv' = EvLabel(e)
    /\ hist' = HistAfter(e)

\* --------------------------------------------------------------- tools
PassThroughTools ==
    {"get_recent_runs", "save_rule", "get_dataset_definition",
     "get_hoot_results", "get_alerts", "save_alert"}
Tools ==
    PassThroughTools \cup
    {"run_sql", "get_rules_by_dataset", "run_dq_job", "search_catalog",
     "get_jobs_in_queue"}

\* The method and endpoint of the n-th call_api a tool makes.
Request(tl, n) ==
    CASE tl = "get_recent_runs"        -> [method |-> "GET", endpoint |-> "/v2/getrecentruns"]
      [] tl = "run_sql"                -> [method |-> "POST", endpoint |-> "/v2/getsqlresult"]
      [] tl = "get_rules_by_dataset"   -> [method |-> "GET", endpoint |-> "/v3/rules/{dataset}"]
      [] tl = "run_dq_job" /\ n = 1    -> [method |-> "PUT", endpoint |-> "/v3/datasetDefs"]
      [] tl = "run_dq_job" /\ n # 1    -> [method |-> "POST", endpoint |-> "/v3/jobs/run"]
      [] tl = "search_catalog"         -> [method |-> "GET", endpoint |-> "/v2/getdataassetsarrforserversidewithmultifilters"]
      [] tl = "get_jobs_in_queue"      -> [method |-> "GET", endpoint |-> "/v2/getowlcheckq"]
      [] tl = "save_rule"              -> [method |-> "POST", endpoint |-> "/v3/rules"]
      [] tl = "get_dataset_definition" -> [method |-> "GET", endpoint |-> "/v2/owl-options/get"]
      [] tl = "get_hoot_results"       -> [method |-> "GET", endpoint |-> "/v2/gethoot"]
      [] tl = "get_alerts"             -> [method |-> "GET", endpoint |-> "/v2/getalerts"]
      [] tl = "save_alert"             -> [method |-> "POST", endpoint |-> "/v3/alerts"]

\* ------------------------------------------------------------ get_client
\* `if _client is None:` reads the global.
GcTest(t) ==
    /\ gcpc[t] = "test"
    /\ gcpc' = [gcpc EXCEPT ![t] = IF g_client = 0 THEN "construct" ELSE "return"]
    /\ UNCHANGED <<env, heap, g_client, got, callVars, histVars>>

\* `_client = DQClient(config)` with the configuration read from the environment.
GcConstruct(t) ==
    /\ gcpc[t] = "construct"
    /\ heap' = Append(heap, NewClient(env.DQ_URL))
    /\ g_client' = Len(heap) + 1
    /\ gcpc' = [gcpc EXCEPT ![t] = "return"]
    /\ UNCHANGED <<env, got, callVars, histVars>>

\* `return _client` reads the global again.
GcReturn(t) ==
    /\ gcpc[t] = "return"
    /\ got' = [got EXCEPT ![t] = g_client]
    /\ gcpc' = [gcpc EXCEPT ![t] = "done"]
    /\ UNCHANGED <<env, heap, g_client, callVars, histVars>>

\* A tool invocation on thread t reaches `client = get_client()`.
GcEnter(t) ==
    /\ gcpc[t] \in {"idle", "done"}
    /\ gcpc' = [gcpc EXCEPT ![t] = "test"]
    /\ UNCHANGED <<env, heap, g_client, got, callVars, histVars>>

\* ---------------------------------------------------- DQClient.request
\* The object the call in progress works on: `client = get_client()`.
Client == heap[got[Main]]

\* A headers property that signs in on every access.
NeedsSigninAlways(c) == TRUE

\* The headers property: `if self._headers is None:`
NeedsSignin(c) == c.headers = None

\* A retry on every error status.
ShouldRetryOnError(status) == ~Ok(status)

\* `if response.status_code == 401:`
ShouldRetry(status) == status = 401

\* A retry that reuses the kwargs of the first attempt.
RetryHeadersStale(c, old) == old

\* `kwargs['headers'] = self.headers` after re-authentication: the headers the
\* retried request carries (old: the headers of the first attempt).
RetryHeaders(c, old) == c.headers

\* A response as request() holds it: the body is read by call_api.
Received(status) == [status |-> status, body |-> None]

\* Lines 88-90: `kwargs['headers'] = self.headers`; the headers property signs
\* in when no headers are cached.
RequestHeaders ==
    /\ pc = "get_client" /\ gcpc[Main] = "done"
    /\ gcpc' = [gcpc EXCEPT ![Main] = "idle"]
    /\ IF NeedsSignin(Client)
       THEN \E o \in SigninOutcomes :
              LET err == AuthError(Client, o, env.jsonErr)
                  c2 == Authenticate(Client, o, env.jsonErr) IN
              /\ heap' = [heap EXCEPT ![got[Main]] = c2]
              /\ Log(SigninEvent(Client, o, env.jsonErr))
              /\ exc' = err
              /\ kwHeaders' = IF err = None THEN c2.headers ELSE None
              /\ pc' = IF err = None THEN "send" ELSE "except"
       ELSE /\ kwHeaders' = Client.headers
            /\ pc' = "send"
            /\ UNCHANGED <<heap, exc, histVars>>
    /\ UNCHANGED <<env, g_client, got, tool, step, response, callResult, toolResult>>

\* Lines 92-95: the request is sent; the backend answers or the transport fails.
RequestSend ==
    /\ pc = "send"
    /\ \/ \E cls \in TransportErrors :
            /\ exc' = Some(cls)
            /\ Log(SendFailEvent(Get(kwHeaders), Request(tool, step)))
            /\ pc' = "except"
            /\ UNCHANGED response
       \/ \E s \in Statuses :
            /\ response' = Some(Received(s))
            /\ Log(SendEvent(Get(kwHeaders), Request(tool, step), s))
            /\ pc' = IF ShouldRetry(s) THEN "reauth" ELSE "respond"
            /\ UNCHANGED exc
    /\ UNCHANGED <<env, gcVars, tool, step, kwHeaders, callResult, toolResult>>

\* Lines 96-97: re-authentication after a 401, then the headers are read again.
RequestReauth ==
    /\ pc = "reauth"
    /\ \E o \in SigninOutcomes :
         LET err == AuthError(Client, o, env.jsonErr)
             c2 == Authenticate(Client, o, env.jsonErr) IN
         /\ heap' = [heap EXCEPT ![got[Main]] = c2]
         /\ Log(SigninEvent(Client, o, env.jsonErr))
         /\ exc' = err
         /\ kwHeaders' = IF err = None THEN RetryHeaders(c2, kwHeaders) ELSE kwHeaders
         /\ pc' = IF err = None THEN "resend" ELSE "except"
    /\ UNCHANGED <<env, g_client, gcpc, got, tool, step, response, callResult, toolResult>>

\* Lines 98-100: the request is sent again and its outcome is the result.
RequestRetry ==
    /\ pc = "resend"
    /\ \/ \E cls \in TransportErrors :
            /\ exc' = Some(cls)
            /\ Log(SendFailEvent(Get(kwHeaders), Request(tool, step)))
            /\ pc' = "except"
            /\ UNCHANGED response
       \/ \E s \in Statuses :
            /\ response' = Some(Received(s))
            /\ Log(SendEvent(Get(kwHeaders), Request(tool, step), s))
            /\ pc' = "respond"
            /\ UNCHANGED exc
    /\ UNCHANGED <<env, gcVars, tool, step, kwHeaders, callResult, toolResult>>

\* ------------------------------------------------------------- call_api
\* A Python dict with the keys the wrapper and the tools use; None: key absent.
Dict(success, data, error, message, count) ==
    [success |-> success, data |-> data, error |-> error,
     message |-> message, count |-> count]

\* An error message: the prefixes put in front of it, its category tag, the
\* status code it names (0: none) and the text it quotes.
Msg(tag, code, detail) == [prefix |-> <<>>, tag |-> tag, code |-> code, detail |-> detail]

Failure(msg) == Dict(FALSE, None, Some(msg), None, None)
Success(data) == Dict(TRUE, Some(data), None, None, None)

\* response.json(): the parsed value of a JSON body.
Json(body) == [kind |-> body.kind, rows |-> body.rows]

\* str(e) of an exception.
ExcText(cls) == [src |-> cls, len |-> 0]

\* The except clauses without the closing `except Exception`.
ExceptTagNoCatchAll(cls) ==
    IF IsInstance(cls, "ConnectionError") THEN Some("Connection error")
    ELSE IF IsInstance(cls, "Timeout") THEN Some("Request timeout")
    ELSE IF IsInstance(cls, "RequestException") THEN Some("Request failed")
    ELSE IF IsInstance(cls, "json.JSONDecodeError") THEN Some("Invalid JSON response")
    ELSE None

\* The except clauses of call_api, tried in order: the message tag of the first
\* clause the exception is an instance of, None when no clause catches it.
ExceptTag(cls) ==
    IF IsInstance(cls, "ConnectionError") THEN Some("Connection error")
    ELSE IF IsInstance(cls, "Timeout") THEN Some("Request timeout")
    ELSE IF IsInstance(cls, "RequestException") THEN Some("Request failed")
    ELSE IF IsInstance(cls, "json.JSONDecodeError") THEN Some("Invalid JSON response")
    ELSE IF IsInstance(cls, "Exception") THEN Some("Unexpected error")
    ELSE None

\* What call_api returns when cls is raised inside its try block: None when
\* the exception escapes.
Handled(cls) ==
    IF ExceptTag(cls) = None THEN None
    ELSE Some(Failure(Msg(Get(ExceptTag(cls)), 0, ExcText(cls))))

\* The error excerpt without the slice.
ExcerptWhole(text) == text

\* `response.text[:500]`
Excerpt(text) == Slice(text, ExcerptLen)

\* Lines 156-160: the failure for an error status, None for any other status.
HttpFailure(status, body) ==
    IF ~Ok(status)
    THEN Some(Failure(Msg("HTTP", status, Excerpt(Text(body)))))
    ELSE None

\* Lines 156-163: request() returned a response; its body is read here. A
\* body that is not JSON makes response.json() raise inside the try block.
CallApiRespond ==
    /\ pc = "respond"
    /\ \E b \in Bodies :
         LET s == Get(response).status
             raised == Ok(s) /\ b.kind = "notjson" IN
         /\ response' = Some([status |-> s, body |-> Some(b)])
         /\ exc' = IF raised THEN Some(env.jsonErr) ELSE None
         /\ callResult' = IF ~Ok(s) THEN HttpFailure(s, b)
                          ELSE IF raised THEN Handled(env.jsonErr)
                          ELSE Some(Success(Json(b)))
    /\ pc' = IF callResult' = None THEN "escaped" ELSE "tool"
    /\ UNCHANGED <<env, gcVars, tool, step, kwHeaders, toolResult, histVars>>

\* Lines 165-174: request() raised.
CallApiExcept ==
    /\ pc = "except"
    /\ callResult' = Handled(Get(exc))
    /\ pc' = IF callResult' = None THEN "escaped" ELSE "tool"
    /\ UNCHANGED <<env, gcVars, tool, step, kwHeaders, response, exc, toolResult, histVars>>

\* ------------------------------------------------------------------ tools
\* json.dumps of a dict, a formatted table, or an exception leaving the tool.
JsonDumps(d) == [fmt |-> "json", obj |-> Some(d), md |-> None, raised |-> None]
Markdown(t) == [fmt |-> "markdown", obj |-> None, md |-> Some(t), raised |-> None]
Raises(cls) == [fmt |-> "raise", obj |-> None, md |-> None, raised |-> Some(cls)]

IsListKind(k) == k \in {"empty_list", "rules"}

\* run_dq_job line 301: the registration failure is reported with a prefix.
RegistrationFailure(res) ==
    Failure([Get(res.error) EXCEPT !.prefix = <<"Registration failed: ">> \o @])

\* A generic failure in place of the wrapper's.
PassFailureGeneric(res) ==
    JsonDumps(Failure(Msg("Request failed", 0, [src |-> "call_api", len |-> 0])))

\* `if not result['success']: return json.dumps(result)`
PassFailure(res) == JsonDumps(res)

ParseFailure(cls) == Failure(Msg("Failed to parse response", 0, ExcText(cls)))

\* What tool tl returns once its n-th call_api returned res.
ToolOutput(tl, n, res) ==
    IF ~res.success
    THEN IF tl = "run_dq_job" /\ n = 1
         THEN JsonDumps(RegistrationFailure(res))
         ELSE PassFailure(res)
    ELSE LET d == Get(res.data) IN
         CASE tl = "run_sql" ->
                IF d.kind = "sqlresult"
                THEN Markdown([shown |-> Min(d.rows, MaxRows), total |-> d.rows,
                               note |-> d.rows > MaxRows])
                ELSE JsonDumps(ParseFailure(IF IsListKind(d.kind) THEN "TypeError"
                                            ELSE "KeyError"))
           [] tl = "get_rules_by_dataset" ->
                IF d.kind = "empty_list"
                THEN JsonDumps(Dict(TRUE, None, None, Some("No rules found for dataset"), None))
                ELSE IF d.kind = "rules"
                THEN JsonDumps(Dict(TRUE, Some([kind |-> "formatted_rules", rows |-> d.rows]),
                                    None, None, None))
                ELSE Raises("AttributeError")
           [] tl = "search_catalog" ->
                IF IsListKind(d.kind) THEN Raises("AttributeError")
                ELSE IF d.kind = "assets"
                THEN JsonDumps(Dict(TRUE, Some([kind |-> "dataAssetList", rows |-> d.rows]),
                                    None, None, Some(d.rows)))
                ELSE JsonDumps(Dict(TRUE, Some([kind |-> "empty_list", rows |-> 0]),
                                    None, None, Some(0)))
           [] tl = "get_jobs_in_queue" ->
                IF IsListKind(d.kind) THEN Raises("AttributeError")
                ELSE IF d.kind = "queue"
                THEN JsonDumps(Dict(TRUE, Some([kind |-> "job_summary", rows |-> d.rows]),
                                    None, None, Some(d.rows)))
                ELSE JsonDumps(Dict(TRUE, Some([kind |-> "empty_list", rows |-> 0]),
                                    None, None, Some(0)))
           [] OTHER -> JsonDumps(res)

\* run_dq_job goes on to its second call_api when registration succeeded.
HasNextCall(tl, n, res) == tl = "run_dq_job" /\ n = 1 /\ res.success

\* A tool is invoked and enters call_api, which calls get_client().
CallTool(tl) ==
    /\ pc = "idle"
    /\ tool' = tl
    /\ step' = 1
    /\ pc' = "get_client"
    /\ gcpc' = [gcpc EXCEPT ![Main] = "test"]
    /\ kwHeaders' = None /\ response' = None /\ exc' = None
    /\ callResult' = None /\ toolResult' = None
    /\ trace' = <<>>
    /\ UNCHANGED <<env, heap, g_client, got, lastEv, hist>>

\* The tool shapes the result of its last call_api and returns.
ToolReturn ==
    /\ pc = "tool"
    /\ ~HasNextCall(tool, step, Get(callResult))
    /\ toolResult' = Some(ToolOutput(tool, step, Get(callResult)))
    /\ pc' = "idle"
    /\ kwHeaders' = None /\ response' = None /\ exc' = None
    /\ trace' = <<>>
    /\ UNCHANGED <<env, gcVars, tool, step, callResult, lastEv, hist>>

\* run_dq_job, lines 303-305: the job is started with a second call_api.
ToolNextCall ==
    /\ pc = "tool"
    /\ HasNextCall(tool, step, Get(callResult))
    /\ step' = step + 1
    /\ pc' = "get_client"
    /\ gcpc' = [gcpc EXCEPT ![Main] = "test"]
    /\ kwHeaders' = None /\ response' = None /\ exc' = None
    /\ callResult' = None
    /\ trace' = <<>>
    /\ UNCHANGED <<env, heap, g_client, got, tool, toolResult, lastEv, hist>>

\* ------------------------------------------------------ specifications
\* The state after import: no client, nothing in progress. DQ_URL is set or
\* not, and one requests release is installed.
Init ==
    /\ env \in [DQ_URL : {None, Some("https://dq")}, jsonErr : JsonErrors]
    /\ heap = <<>>
    /\ g_client = 0
    /\ gcpc = [t \in Threads |-> "idle"]
    /\ got = [t \in Threads |-> 0]
    /\ pc = "idle"
    /\ tool = "none"
    /\ step = 0
    /\ kwHeaders = None /\ response = None /\ exc = None
    /\ callResult = None /\ toolResult = None
    /\ trace = <<>>
    /\ lastEv = "none"
    /\ hist = [signins |-> 0, okReq |-> FALSE, lastTok |-> 0]

\* Tool invocations one at a time.
Next ==
    \/ \E tl \in Tools : CallTool(tl)
    \/ GcTest(Main)
    \/ GcConstruct(Main)
    \/ GcReturn(Main)
    \/ RequestHeaders
    \/ RequestSend
    \/ RequestReauth
    \/ RequestRetry
    \/ CallApiRespond
    \/ CallApiExcept
    \/ ToolReturn
    \/ ToolNextCall

Spec == Init /\ [][Next]_vars

\* Tool invocations on several threads, each followed as far as get_client.
NextGC ==
    \E t \in Threads :
        \/ GcEnter(t)
        \/ GcTest(t)
        \/ GcConstruct(t)
        \/ GcReturn(t)

SpecGC == Init /\ [][NextGC]_vars

\* ======================================================================
\* Properties
\* ======================================================================
SendIdx == { i \in 1..Len(trace) : trace[i].ev \in {"send", "send_exc"} }
SigninIdx == { i \in 1..Len(trace) : IsSignin(trace[i]) }
Last(seq) == seq[Len(seq)]

\* The step appends a sign-in attempt to the history.
SigninStep ==
    /\ Len(trace') = Len(trace) + 1
    /\ IsSignin(Last(trace'))

IsFailure(res) == ~res.success /\ res.error # None /\ res.data = None
IsSuccess(res) == res.success /\ res.data # None /\ res.error = None

\* C1: call_api never raises. Whatever the backend and the configuration do,
\* no exception leaves call_api, no invocation gets stuck, and once call_api
\* has returned its result is a Success {success: true, data} or a Failure
\* {success: false, error: message}.
C1_CallApiNeverRaises ==
    /\ pc # "escaped"
    /\ pc # "idle" => ENABLED Next
    /\ pc = "tool" =>
         /\ callResult # None
         /\ IsSuccess(Get(callResult)) \/ IsFailure(Get(callResult))
         /\ exc # None => IsFailure(Get(callResult))

\* C1 witness: a sign-in body without a token field raised KeyError and
\* call_api returned a Failure.
C1_Witness ==
    /\ pc = "tool"
    /\ exc = Some("KeyError")
    /\ IsFailure(Get(callResult))

\* C2: request() retries exactly once and only on 401. One request() sends
\* at most two backend requests; a first answer other than 401 is returned
\* after that single request and no re-authentication; after a first 401 the
\* client signs in again and, the sign-in having succeeded, sends the same
\* request once more; whatever answer request() returns is that of the last
\* request sent, a second 401 included.
C2_RetryOnceOnlyOn401 ==
    /\ Cardinality(SendIdx) <= 2
    /\ \A i \in SendIdx : \A j \in SendIdx :
         i < j =>
           /\ trace[i].ev = "send" /\ trace[i].status = 401
           /\ j = i + 2 /\ trace[i + 1].ev = "signin_ok"
           /\ trace[j].method = trace[i].method
           /\ trace[j].endpoint = trace[i].endpoint
    /\ \A i \in SigninIdx : \A j \in SendIdx : j < i => trace[j].status = 401
    /\ pc = "reauth" => Last(trace).ev = "send" /\ Last(trace).status = 401
    /\ pc = "respond" =>
         /\ Last(trace).ev = "send"
         /\ Get(response).status = Last(trace).status
         /\ LET first == trace[CHOOSE i \in SendIdx : \A j \in SendIdx : i <= j] IN
            IF first.status = 401
            THEN /\ Cardinality(SendIdx) = 2
                 /\ Cardinality({ i \in SigninIdx : \E j \in SendIdx : j < i }) = 1
            ELSE /\ Cardinality(SendIdx) = 1
                 /\ Last(trace) = first

\* C2 witness: request() returns the second 401 after one retry.
C2_Witness ==
    /\ pc = "respond"
    /\ Cardinality(SendIdx) = 2
    /\ \A i \in SendIdx : trace[i].status = 401
    /\ Get(response).status = 401

\* C3 as stated: at most one sign-in call happens before the first
\* successful request, and a second or later sign-in happens only
\* immediately after a 401 answer to a request.
C3_Original ==
    /\ [](hist.signins <= 1)
    /\ [][SigninStep /\ hist.signins >= 1 => lastEv = "send_401"]_vars

\* C3 amended: a sign-in happens only when the client holds no headers, which
\* is exactly as long as no sign-in has succeeded, or immediately after a 401
\* answer to a request of the same request() call.
C3_SigninOnlyUnauthenticatedOrAfter401 ==
    /\ [](got[Main] # 0 => (Client.headers = None <=> hist.lastTok = 0))
    /\ [][SigninStep =>
            \/ pc = "get_client" /\ Client.headers = None /\ hist.lastTok = 0
            \/ pc = "reauth" /\ lastEv = "send_401" /\ Last(trace).status = 401]_vars

\* C3 witness: an authenticated client has signed in again right after a 401.
C3_Witness ==
    /\ Len(trace) = 2
    /\ trace[1].ev = "send" /\ trace[1].status = 401
    /\ trace[2].ev = "signin_ok"
    /\ pc = "resend"

\* C4: in every state every DQClient has headers exactly when it has a
\* token, and its Authorization header is "Bearer " followed by that token.
C4_HeadersIffToken ==
    \A i \in 1..Len(heap) :
        /\ heap[i].headers = None <=> heap[i].token = None
        /\ heap[i].headers # None =>
             Get(heap[i].headers).Authorization = <<"Bearer", Get(heap[i].token)>>

\* C4 witness: a client that signed in, was answered 401 and signed in again
\* with another token holds the new token and headers.
C4_Witness ==
    /\ Len(trace) >= 2
    /\ pc = "resend"
    /\ trace[Len(trace) - 1].ev = "send"
    /\ Last(trace).ev = "signin_ok"
    /\ Last(trace).token # trace[Len(trace) - 1].token
    /\ Client.token = Some(Last(trace).token)

\* C5: a failed sign-in (transport error, error status, body that is not
\* JSON or has no token, missing configuration) leaves every client's token
\* and headers as they were, its exception is raised out of request() into
\* call_api's handlers, and no backend request is sent after it in that call.
C5_FailedSigninLeavesState ==
    /\ [][SigninStep /\ Last(trace').ev = "signin_fail" =>
            /\ heap' = heap
            /\ exc' # None
            /\ pc' = "except"]_vars
    /\ [](\A i \in SigninIdx : trace[i].ev = "signin_fail" =>
            /\ i = Len(trace)
            /\ exc # None
            /\ pc \in {"except", "tool"}
            /\ response = None \/ Get(response).status = 401)

\* C5 witness: the first sign-in of an unauthenticated client failed on an
\* error status; the client holds neither token nor headers and nothing was
\* sent.
C5_Witness ==
    /\ pc = "except"
    /\ trace # <<>>
    /\ Last(trace).ev = "signin_fail"
    /\ exc = Some("HTTPError")
    /\ Client.token = None /\ Client.headers = None
    /\ SendIdx = {}

\* C6: every backend request carries the token of the most recent successful
\* sign-in; the request sent again after a 401 carries the token of the
\* sign-in that followed that 401.
C6_RequestsCarryLatestToken ==
    /\ pc \in {"send", "resend"} =>
         /\ kwHeaders # None
         /\ hist.lastTok # 0
         /\ Get(kwHeaders).Authorization = <<"Bearer", hist.lastTok>>
    /\ \A i \in SendIdx :
         /\ trace[i].token # 0
         /\ i = Len(trace) => trace[i].token = hist.lastTok
         /\ i > 1 /\ trace[i - 1].ev = "signin_ok" => trace[i].token = trace[i - 1].token

\* C6 witness: a request rejected with one token was sent again with the
\* token of the re-authentication.
C6_Witness ==
    /\ Len(trace) = 3
    /\ trace[1].ev = "send" /\ trace[1].status = 401 /\ trace[1].token = 1
    /\ trace[2].ev = "signin_ok" /\ trace[2].token = 2
    /\ trace[3].ev = "send" /\ trace[3].token = 2

\* C7: once call_api has returned for a response: an error status (400-599)
\* gives a Failure whose message names that status and quotes the first 500
\* characters of the body at most; a Success is returned only for a status
\* outside that range with a body that parses, and wraps the parsed value; a
\* request answered 401 twice gives a Failure naming 401.
C7_StatusDecidesResult ==
    pc = "tool" /\ response # None /\ Get(response).body # None =>
      LET r == Get(response)
          b == Get(r.body)
          res == Get(callResult) IN
      /\ r.status \in 400..599 =>
           /\ IsFailure(res)
           /\ Get(res.error).tag = "HTTP"
           /\ Get(res.error).code = r.status
           /\ Get(res.error).detail.src = b.kind
           /\ Get(res.error).detail.len = Min(b.len, ExcerptLen)
           /\ Get(res.error).detail.len <= ExcerptLen
      /\ IsSuccess(res) <=> r.status \notin 400..599 /\ b.kind # "notjson"
      /\ IsSuccess(res) => Get(res.data) = [kind |-> b.kind, rows |-> b.rows]
      /\ ~IsSuccess(res) => IsFailure(res)
      /\ (Cardinality(SendIdx) = 2 /\ \A i \in SendIdx : trace[i].status = 401) =>
           IsFailure(res) /\ Get(res.error).code = 401

\* C7 witness: two 401 answers, the second with a body longer than the
\* excerpt, gave a Failure naming 401.
C7_Witness ==
    /\ pc = "tool"
    /\ Cardinality(SendIdx) = 2
    /\ response # None /\ Get(response).body # None
    /\ Get(Get(response).body).len > ExcerptLen
    /\ IsFailure(Get(callResult))
    /\ Get(Get(callResult).error).code = 401
    /\ Get(Get(callResult).error).detail.len = ExcerptLen

\* The category call_api's message should carry for an exception class.
CauseTags(cls) ==
    CASE cls \in JsonErrors        -> {"Invalid JSON response"}
      [] cls = "ConnectionError"   -> {"Connection error"}
      [] cls = "ReadTimeout"       -> {"Request timeout"}
      [] cls = "ConnectTimeout"    -> {"Connection error", "Request timeout"}
      [] cls \in {"HTTPError", "MissingSchema"} -> {"Request failed"}
      [] OTHER                     -> {"Unexpected error"}

\* C8: every Failure for an exception is tagged with the category of its
\* cause: connection error, timeout, other transport error, JSON decode
\* error, unexpected error, each under its own tag.
C8_EachCauseOwnCategory ==
    pc = "tool" /\ exc # None =>
      /\ IsFailure(Get(callResult))
      /\ Get(Get(callResult).error).tag \in CauseTags(Get(exc))

\* C9 as stated: every tool returns a Failure of call_api unchanged, as its
\* JSON encoding, run_dq_job's registration step included.
C9_Original ==
    pc = "idle" /\ callResult # None /\ ~Get(callResult).success =>
      toolResult = Some(JsonDumps(Get(callResult)))

\* C9 amended: every tool returns a Failure of call_api unchanged, as its JSON
\* encoding, except run_dq_job when registration fails: it returns a Failure
\* whose message is the wrapper's message behind "Registration failed: ".
C9_FailurePassedThrough ==
    pc = "idle" /\ callResult # None /\ ~Get(callResult).success =>
      IF tool = "run_dq_job" /\ step = 1
      THEN /\ toolResult # None
           /\ Get(toolResult).fmt = "json"
           /\ IsFailure(Get(Get(toolResult).obj))
           /\ LET m == Get(Get(Get(toolResult).obj).error)
                  w == Get(Get(callResult).error) IN
              /\ m.prefix = <<"Registration failed: ">> \o w.prefix
              /\ m.tag = w.tag /\ m.code = w.code /\ m.detail = w.detail
      ELSE toolResult = Some(JsonDumps(Get(callResult)))

\* C9 witness: run_dq_job's second call failed and the tool returned that
\* Failure as it was.
C9_Witness ==
    /\ pc = "idle"
    /\ tool = "run_dq_job" /\ step = 2
    /\ callResult # None /\ ~Get(callResult).success
    /\ toolResult = Some(JsonDumps(Get(callResult)))

\* C10: at most one DQClient is ever constructed and every get_client call
\* returns that one object, concurrent first calls included.
C10_SingleInstance ==
    /\ Len(heap) <= 1
    /\ \A t \in Threads : got[t] # 0 => got[t] = 1

=============================================================================
